---- MODULE Spec2Model ----
(***************************************************************************)
(* A model of the two numeric engines of the repository:                   *)
(*   - ExchangeRates (src/exchange_rates.py): a CAD <-> USD converter that  *)
(*     reads the latest USD/CAD rate from a CSV table and memoizes it;      *)
(*   - MortgagePayment (src/mortgage.py): a payment calculator over a       *)
(*     validated quoted rate and amortization period.                      *)
(*                                                                         *)
(* Python values are records [t, v]: t is the Python type ("int", "float", *)
(* "str", "None", or "nan" for the float NaN) and v an integer.  Money     *)
(* passed in is held in mills (1/1000 of a dollar), money returned in      *)
(* cents, an exchange rate in hundredths, a rate percent in tenths of a    *)
(* percent.                                                                *)
(***************************************************************************)
EXTENDS Integers, Sequences, FiniteSets, TLC

VARIABLES
    csv_fieldnames,   \* header row of the CSV file at __csv_path
    csv_rows,         \* the data rows: the text each row holds under USD/CAD
    cached_usd_cad,   \* ExchangeRates.__cached_usd_cad
    xr_call,          \* the convert call that has just returned (or NoCall)
    xr_failed,        \* the last convert that reached the lookup failed in it
    mp_alive,         \* a MortgagePayment object exists
    quoted_rate_pct,  \* MortgagePayment.__quoted_rate_pct
    amort_years,      \* MortgagePayment.__amort_years
    mp_call,          \* the MortgagePayment call that has just returned
    mp_prev           \* the payments call before it, under the same rate and term

vars == <<csv_fieldnames, csv_rows, cached_usd_cad, xr_call, xr_failed,
          mp_alive, quoted_rate_pct, amort_years, mp_call, mp_prev>>
xr_vars == <<csv_fieldnames, csv_rows, cached_usd_cad, xr_call, xr_failed>>
mp_vars == <<mp_alive, quoted_rate_pct, amort_years, mp_call, mp_prev>>

(***************************************************************************)
(* Bounds of the model.                                                    *)
(***************************************************************************)
MaxRows == 3
MaxPrincipalCents == 12
MaxRoundTripCents == 12

(***************************************************************************)
(* Python values.                                                          *)
(***************************************************************************)
PyInt(n) == [t |-> "int", v |-> n]
PyFloat(n) == [t |-> "float", v |-> n]
PyStr == [t |-> "str", v |-> 0]
PyNaN == [t |-> "nan", v |-> 0]
None == [t |-> "None", v |-> 0]

\* isinstance(x, (int, float)): NaN is a float.
IsIntOrFloat(x) == x.t \in {"int", "float", "nan"}
\* x < n and x > n on numbers: every comparison with NaN is false.
Lt(x, n) == x.t # "nan" /\ x.v < n
Gt(x, n) == x.t # "nan" /\ x.v > n
\* float(x) of a number.
ToFloat(x) == IF x.t = "int" THEN PyFloat(x.v) ELSE x

Range(s) == {s[i] : i \in 1..Len(s)}
Abs(n) == IF n < 0 THEN -n ELSE n

(***************************************************************************)
(* Rounding.  A real is a fraction [num, den] with den > 0.                *)
(***************************************************************************)
Frac(n, d) == [num |-> n, den |-> d]
FloorDiv(n, d) == n \div d

\* round(x + 1e-9, 2) for x = q mills, in cents.  The epsilon lifts an exact
\* half cent over the tie; every value of the model lies on a grid far
\* coarser than 1e-9, so no other value is moved to another cent.
RoundEps(q) == FloorDiv(q.num + 5 * q.den, 10 * q.den)

\* round(x, 2) for x = q mills, in cents: the cents nearest to x.  At an exact
\* half cent Python rounds the binary double, which lies just above or just
\* below the tie: both neighbours are outcomes.
Round2(q) ==
    LET lo == FloorDiv(q.num, 10 * q.den)
    IN  {c \in {lo, lo + 1} : 2 * Abs(q.num - 10 * c * q.den) <= 10 * q.den}

(***************************************************************************)
(*                           ExchangeRates                                 *)
(***************************************************************************)
Fieldnames == {<<"date", "USD/CAD">>, <<"date", "FXUSDCAD">>}
Cells == {"", "abc", "1.35", " 1.37 ", "0"}

\* str.strip() on the cells and currency codes of the model.
strip(s) ==
    CASE s = " 1.37 " -> "1.37"
      [] s = " usd "  -> "usd"
      [] s = " USD "  -> "USD"
      [] OTHER        -> s
\* str.upper() on the currency codes of the model.
upper(s) == IF s = "usd" THEN "USD" ELSE IF s = " usd " THEN " USD " ELSE s
\* float(cell): the rate in hundredths, or None for a ValueError.
float(s) ==
    CASE s = "1.35" -> PyFloat(135)
      [] s = "1.37" -> PyFloat(137)
      [] s = "0"    -> PyFloat(0)
      [] OTHER      -> None

\* The loop over the data rows: keeps the last value that parses, skips blank
\* and unparsable cells.
RECURSIVE ScanRows(_, _)
ScanRowsStopAtJunk(rows, last_rate) ==
    IF rows = <<>> THEN last_rate
    ELSE LET cell == strip(Head(rows))
         IN  IF cell = "" THEN ScanRows(Tail(rows), last_rate)
             ELSE IF float(cell) = None THEN last_rate
             ELSE ScanRows(Tail(rows), float(cell))
ScanRows(rows, last_rate) ==
    IF rows = <<>> THEN last_rate
    ELSE LET cell == strip(Head(rows))
         IN  IF cell = "" THEN ScanRows(Tail(rows), last_rate)
             ELSE IF float(cell) = None THEN ScanRows(Tail(rows), last_rate)
             ELSE ScanRows(Tail(rows), float(cell))

\* __latest_usd_cad: the outcome [kind, rate, cached, read] of one call, where
\* cached is the new value of __cached_usd_cad and read tells whether the file
\* was opened.
LookupResult(kind, rate, cached, read) ==
    [kind |-> kind, rate |-> rate, cached |-> cached, read |-> read]
latest_usd_cad_uncached(cached, fieldnames, rows) ==
    IF "USD/CAD" \notin Range(fieldnames)
    THEN LookupResult("ValueError_no_column", None, cached, TRUE)
    ELSE LET last_rate == ScanRows(rows, None)
         IN  IF last_rate = None
             THEN LookupResult("ValueError_no_numeric", None, cached, TRUE)
             ELSE LookupResult("ok", last_rate, last_rate, TRUE)
__latest_usd_cad(cached, fieldnames, rows) ==
    IF cached # None THEN LookupResult("ok", cached, cached, FALSE)
    ELSE IF "USD/CAD" \notin Range(fieldnames)
    THEN LookupResult("ValueError_no_column", None, None, TRUE)
    ELSE LET last_rate == ScanRows(rows, None)
         IN  IF last_rate = None
             THEN LookupResult("ValueError_no_numeric", None, None, TRUE)
             ELSE LookupResult("ok", last_rate, last_rate, TRUE)

\* convert: the outcomes [kind, cents, cached, read, looked] of one call; looked
\* tells whether the call reached the rate lookup.
ConvertResult(kind, cents, cached, read, looked) ==
    [kind |-> kind, cents |-> cents, cached |-> cached, read |-> read,
     looked |-> looked]
CrossConvert(cached, fieldnames, rows, amount, f, t) ==
    LET lk == __latest_usd_cad(cached, fieldnames, rows)
    IN  IF lk.kind # "ok"
        THEN {ConvertResult(lk.kind, 0, lk.cached, lk.read, TRUE)}
        ELSE IF f = "USD" /\ t = "CAD"
        THEN {ConvertResult("ok", RoundEps(Frac(amount.v * lk.rate.v, 100)),
                            lk.cached, lk.read, TRUE)}
        ELSE IF f = "CAD" /\ t = "USD"
        THEN IF lk.rate.v = 0
             THEN {ConvertResult("ZeroDivisionError", 0, lk.cached, lk.read, TRUE)}
             ELSE {ConvertResult("ok", RoundEps(Frac(amount.v * 100, lk.rate.v)),
                                 lk.cached, lk.read, TRUE)}
        ELSE {ConvertResult("ValueError_pair", 0, lk.cached, lk.read, TRUE)}
convert_no_shortcut(cached, fieldnames, rows, amount, from_currency, to_currency) ==
    LET f == strip(upper(from_currency))
        t == strip(upper(to_currency))
    IN  IF ~IsIntOrFloat(amount)
        THEN {ConvertResult("TypeError", 0, cached, FALSE, FALSE)}
        ELSE IF Lt(amount, 0)
        THEN {ConvertResult("ValueError_amount", 0, cached, FALSE, FALSE)}
        ELSE IF f \notin {"CAD", "USD"} \/ t \notin {"CAD", "USD"}
        THEN {ConvertResult("ValueError_currency", 0, cached, FALSE, FALSE)}
        ELSE LET lk == __latest_usd_cad(cached, fieldnames, rows)
             IN  IF lk.kind # "ok"
                 THEN {ConvertResult(lk.kind, 0, lk.cached, lk.read, TRUE)}
                 ELSE {ConvertResult("ok", c, lk.cached, lk.read, TRUE) :
                          c \in Round2(Frac(amount.v, 1))}
convert(cached, fieldnames, rows, amount, from_currency, to_currency) ==
    LET f == strip(upper(from_currency))
        t == strip(upper(to_currency))
    IN  IF ~IsIntOrFloat(amount)
        THEN {ConvertResult("TypeError", 0, cached, FALSE, FALSE)}
        ELSE IF Lt(amount, 0)
        THEN {ConvertResult("ValueError_amount", 0, cached, FALSE, FALSE)}
        ELSE IF f \notin {"CAD", "USD"} \/ t \notin {"CAD", "USD"}
        THEN {ConvertResult("ValueError_currency", 0, cached, FALSE, FALSE)}
        ELSE IF f = t
        THEN {ConvertResult("ok", c, cached, FALSE, FALSE) :
                 c \in Round2(Frac(ToFloat(amount).v, 1))}
        ELSE CrossConvert(cached, fieldnames, rows, amount, f, t)

\* The arguments the calls of the model are made with.
Amounts == {PyStr, PyFloat(-10), PyFloat(15), PyInt(1000), PyFloat(1006)}
CurrencyPairs ==
    {<<"CAD", "CAD">>, <<" usd ", " usd ">>, <<"CAD", " usd ">>,
     <<" usd ", "CAD">>, <<"EUR", "CAD">>, <<"CAD", "EUR">>}

NoCall == [op |-> "none"]
XRCall(amount, f, t, before, o) ==
    [op |-> "convert", amount |-> amount, from |-> f, to |-> t,
     before |-> before, retry |-> xr_failed,
     kind |-> o.kind, cents |-> o.cents, read |-> o.read, looked |-> o.looked]

XRInit ==
    /\ csv_fieldnames \in Fieldnames
    /\ csv_rows = <<>>
    /\ cached_usd_cad = None
    /\ xr_call = NoCall
    /\ xr_failed = FALSE

\* xr.convert(amount, from_currency, to_currency)
Convert ==
    \E amount \in Amounts, ft \in CurrencyPairs :
      \E o \in convert(cached_usd_cad, csv_fieldnames, csv_rows, amount,
                       ft[1], ft[2]) :
        /\ cached_usd_cad' = o.cached
        /\ xr_call' = XRCall(amount, ft[1], ft[2], cached_usd_cad, o)
        /\ xr_failed' = IF o.looked THEN o.kind \in {"ValueError_no_column",
                                                      "ValueError_no_numeric"}
                        ELSE xr_failed
        /\ UNCHANGED <<csv_fieldnames, csv_rows>>
        /\ UNCHANGED mp_vars

\* The environment rewrites the CSV file: a row is added at the end.
AppendRow ==
    \E cell \in Cells :
        /\ Len(csv_rows) < MaxRows
        /\ csv_rows' = Append(csv_rows, cell)
        /\ xr_call' = NoCall
        /\ UNCHANGED <<csv_fieldnames, cached_usd_cad, xr_failed>>
        /\ UNCHANGED mp_vars

\* The environment rewrites the CSV file: all data rows are removed.
ClearRows ==
    /\ csv_rows # <<>>
    /\ csv_rows' = <<>>
    /\ xr_call' = NoCall
    /\ UNCHANGED <<csv_fieldnames, cached_usd_cad, xr_failed>>
    /\ UNCHANGED mp_vars

\* The environment rewrites the CSV file: the header row is replaced.
SetFieldnames ==
    \E h \in Fieldnames :
        /\ h # csv_fieldnames
        /\ csv_fieldnames' = h
        /\ xr_call' = NoCall
        /\ UNCHANGED <<csv_rows, cached_usd_cad, xr_failed>>
        /\ UNCHANGED mp_vars

(***************************************************************************)
(*                          MortgagePayment                                *)
(*                                                                         *)
(* The float arithmetic of the payment formula is carried out in fixed     *)
(* point: a rate or factor x is held as the integer x * ONE, truncated.    *)
(***************************************************************************)
ONE == 100 * 100
Cap(x) == IF x > 4 * ONE THEN 4 * ONE ELSE x
MulFix(a, b) == (a * b) \div ONE

\* b ** n for n >= 0 (results above 4.0 are reported as 4.0, which no use
\* below tells apart from the true value).
RECURSIVE PowFix(_, _)
PowFix(b, n) ==
    IF n = 0 THEN ONE
    ELSE LET h == PowFix(b, n \div 2)
             sq == Cap(MulFix(h, h))
         IN  IF n % 2 = 0 THEN sq ELSE Cap(MulFix(sq, b))

\* x ** (1.0 / m) for x >= 1: the largest y with y ** m <= x.
RECURSIVE Bisect(_, _, _, _)
Bisect(lo, hi, x, m) ==
    IF lo >= hi THEN lo
    ELSE LET mid == (lo + hi + 1) \div 2
         IN  IF PowFix(mid, m) <= x THEN Bisect(mid, hi, x, m)
             ELSE Bisect(lo, mid - 1, x, m)
\* The roots the calls of the model ask for are computed once.
RootMemo ==
    [x \in {ONE + MulFix(ONE + j \div 2, ONE + j \div 2) - ONE :
                j \in {0, 55 * 10, 100 * 100}},
     m \in {12, 24, 26, 52} |-> Bisect(ONE, x, x, m)]
RootFix(x, m) ==
    IF <<x, m>> \in DOMAIN RootMemo THEN RootMemo[x, m] ELSE Bisect(ONE, x, x, m)

\* A payment is a fraction of mills; den = 0 stands for the float NaN.
NaNFrac == [num |-> 0, den |-> 0]
Over(x, k) == IF x.den = 0 THEN x ELSE Frac(x.num, k * x.den)
\* r2 = lambda x: round(x + 1e-9, 2), a float in cents.
r2(x) == IF x.den = 0 THEN PyNaN ELSE PyFloat(RoundEps(x))

\* b ** (-n) for b >= 1, as (1 / b) ** n; the powers the calls of the model ask
\* for are computed once.
PowNegMemo ==
    [b \in {RootMemo[k] : k \in DOMAIN RootMemo},
     n \in {m * y : m \in {12, 24, 26, 52}, y \in {1, 2, 100}}
        |-> PowFix((ONE * ONE) \div b, n)]
PowNeg(b, n) ==
    IF <<b, n>> \in DOMAIN PowNegMemo THEN PowNegMemo[b, n]
    ELSE PowFix((ONE * ONE) \div b, n)

_pva_zero_rate_is_one(r, n) ==
    IF r = 0 THEN ONE
    ELSE ((ONE - PowNeg(ONE + r, n)) * ONE) \div r
_pva(r, n) ==
    IF r = 0 THEN n * ONE
    ELSE ((ONE - PowNeg(ONE + r, n)) * ONE) \div r

_semi_to_effective_annual(j) ==
    MulFix(ONE + j \div 2, ONE + j \div 2) - ONE

_effective_to_periodic(ear, m) == RootFix(ONE + ear, m) - ONE

\* rate_pct and years are the stored __quoted_rate_pct and __amort_years.
_payment_given_frequency_negated(rate_pct, years, principal, m_per_year) ==
    IF rate_pct.t = "nan" THEN NaNFrac
    ELSE LET j == (rate_pct.v * ONE) \div (10 * 100)
             ear == _semi_to_effective_annual(j)
             r == _effective_to_periodic(ear, m_per_year)
             n == m_per_year * years.v
         IN  Frac(-(principal.v * ONE), _pva(r, n))
_payment_given_frequency(rate_pct, years, principal, m_per_year) ==
    IF rate_pct.t = "nan" THEN NaNFrac
    ELSE LET j == (rate_pct.v * ONE) \div (10 * 100)
             ear == _semi_to_effective_annual(j)
             r == _effective_to_periodic(ear, m_per_year)
             n == m_per_year * years.v
         IN  Frac(principal.v * ONE, _pva(r, n))

\* payments: [kind, values], values the six amounts returned.
MPResult(kind, values) == [kind |-> kind, values |-> values]
\* The mills of a float held in cents.
CentsToMills(x) == IF x.t = "nan" THEN NaNFrac ELSE Frac(10 * x.v, 1)
payments_rapid_from_rounded(rate_pct, years, principal) ==
    IF ~IsIntOrFloat(principal) THEN MPResult("TypeError", <<>>)
    ELSE IF Lt(principal, 0) THEN MPResult("ValueError", <<>>)
    ELSE LET monthly == _payment_given_frequency(rate_pct, years, principal, 12)
             semi_monthly == _payment_given_frequency(rate_pct, years, principal, 24)
             bi_weekly == _payment_given_frequency(rate_pct, years, principal, 26)
             weekly == _payment_given_frequency(rate_pct, years, principal, 52)
             rapid_bi_weekly == Over(CentsToMills(r2(monthly)), 2)
             rapid_weekly == Over(CentsToMills(r2(monthly)), 4)
         IN  MPResult("ok", <<r2(monthly), r2(semi_monthly), r2(bi_weekly),
                              r2(weekly), r2(rapid_bi_weekly), r2(rapid_weekly)>>)
payments(rate_pct, years, principal) ==
    IF ~IsIntOrFloat(principal) THEN MPResult("TypeError", <<>>)
    ELSE IF Lt(principal, 0) THEN MPResult("ValueError", <<>>)
    ELSE LET monthly == _payment_given_frequency(rate_pct, years, principal, 12)
             semi_monthly == _payment_given_frequency(rate_pct, years, principal, 24)
             bi_weekly == _payment_given_frequency(rate_pct, years, principal, 26)
             weekly == _payment_given_frequency(rate_pct, years, principal, 52)
             rapid_bi_weekly == Over(monthly, 2)
             rapid_weekly == Over(monthly, 4)
         IN  MPResult("ok", <<r2(monthly), r2(semi_monthly), r2(bi_weekly),
                              r2(weekly), r2(rapid_bi_weekly), r2(rapid_weekly)>>)

\* The setters: [kind, value], value the new value of the field.
SetResult(kind, value) == [kind |-> kind, value |-> value]
set_rate_percent(stored, quoted_rate_percent) ==
    IF ~IsIntOrFloat(quoted_rate_percent) THEN SetResult("TypeError", stored)
    ELSE IF Lt(quoted_rate_percent, 0) \/ Gt(quoted_rate_percent, 100 * 10)
    THEN SetResult("ValueError", stored)
    ELSE SetResult("ok", ToFloat(quoted_rate_percent))
set_amort_years(stored, years) ==
    IF years.t # "int" THEN SetResult("TypeError", stored)
    ELSE IF years.v <= 0 \/ years.v > 100 THEN SetResult("ValueError", stored)
    ELSE SetResult("ok", years)

\* The arguments the calls of the model are made with: rates in tenths of a
\* percent (PyInt(1000) is the int 100), years (PyFloat(25) is the float 25.0),
\* principals in mills.
RateArgs == {PyStr, PyNaN, PyFloat(-1), PyFloat(0), PyFloat(55), PyInt(1000),
             PyFloat(1500)}
YearArgs == {PyStr, PyFloat(25), PyInt(0), PyInt(1), PyInt(2), PyInt(100),
             PyInt(101)}
PrincipalArgs ==
    {PyStr, PyFloat(-1000), PyInt(100000)}
        \cup {PyFloat(10 * k) : k \in 0..MaxPrincipalCents}

MPCall(op, arg, arg2, kind, values) ==
    [op |-> op, arg |-> arg, arg2 |-> arg2, kind |-> kind, values |-> values,
     alive_before |-> mp_alive, rate_before |-> quoted_rate_pct,
     years_before |-> amort_years]
\* The last successful payments call made since the rate and term were set.
LastPayments ==
    IF mp_call.op = "payments" /\ mp_call.kind = "ok"
    THEN [op |-> "payments", principal |-> mp_call.arg, values |-> mp_call.values]
    ELSE mp_prev

MPIdle ==
    /\ mp_alive = FALSE
    /\ quoted_rate_pct = PyFloat(0)
    /\ amort_years = PyInt(0)
    /\ mp_call = NoCall
    /\ mp_prev = NoCall

XRIdle ==
    /\ csv_fieldnames = <<"date", "USD/CAD">>
    /\ csv_rows = <<>>
    /\ cached_usd_cad = None
    /\ xr_call = NoCall
    /\ xr_failed = FALSE

\* mp = MortgagePayment(quoted_rate_percent, amort_years), while there is no
\* object: the fields start at 0.0 and 0 and the two setters run; an exception
\* leaves no object.
Construct ==
    \E rate \in RateArgs, years \in YearArgs :
      LET sr == set_rate_percent(PyFloat(0), rate)
          sy == set_amort_years(PyInt(0), years)
          kind == IF sr.kind # "ok" THEN sr.kind ELSE sy.kind
      IN  /\ ~mp_alive
          /\ mp_alive' = (kind = "ok")
          /\ quoted_rate_pct' = IF kind = "ok" THEN sr.value ELSE PyFloat(0)
          /\ amort_years' = IF kind = "ok" THEN sy.value ELSE PyInt(0)
          /\ mp_call' = MPCall("init", rate, years, kind, <<>>)
          /\ mp_prev' = NoCall
          /\ UNCHANGED xr_vars

\* mp.set_rate_percent(quoted_rate_percent)
SetRatePercent ==
    \E rate \in RateArgs :
      LET sr == set_rate_percent(quoted_rate_pct, rate)
      IN  /\ mp_alive
          /\ quoted_rate_pct' = sr.value
          /\ mp_call' = MPCall("set_rate_percent", rate, None, sr.kind, <<>>)
          /\ mp_prev' = IF sr.kind = "ok" THEN NoCall ELSE LastPayments
          /\ UNCHANGED <<mp_alive, amort_years>>
          /\ UNCHANGED xr_vars

\* mp.set_amort_years(amort_years)
SetAmortYears ==
    \E years \in YearArgs :
      LET sy == set_amort_years(amort_years, years)
      IN  /\ mp_alive
          /\ amort_years' = sy.value
          /\ mp_call' = MPCall("set_amort_years", years, None, sy.kind, <<>>)
          /\ mp_prev' = IF sy.kind = "ok" THEN NoCall ELSE LastPayments
          /\ UNCHANGED <<mp_alive, quoted_rate_pct>>
          /\ UNCHANGED xr_vars

\* mp.payments(principal)
Payments ==
    \E principal \in PrincipalArgs :
      LET res == payments(quoted_rate_pct, amort_years, principal)
      IN  /\ mp_alive
          /\ mp_call' = MPCall("payments", principal, None, res.kind, res.values)
          /\ mp_prev' = LastPayments
          /\ UNCHANGED <<mp_alive, quoted_rate_pct, amort_years>>
          /\ UNCHANGED xr_vars

XRNext == Convert \/ AppendRow \/ ClearRows \/ SetFieldnames
MPNext == Construct \/ SetRatePercent \/ SetAmortYears \/ Payments

InitXR == XRInit /\ MPIdle
InitMP == XRIdle /\ MPIdle

SpecXR == InitXR /\ [][XRNext]_vars
SpecMP == InitMP /\ [][MPNext]_vars

(***************************************************************************)
(*                              Claims                                     *)
(***************************************************************************)
LookupErrors == {"ValueError_no_column", "ValueError_no_numeric"}
ArgumentErrors == {"TypeError", "ValueError_amount", "ValueError_currency"}
Norm(code) == strip(upper(code))
IsConvert == xr_call.op = "convert"
IsCross(call) ==
    /\ call.op = "convert"
    /\ call.looked
\* cents is x rounded half up, for x = num / den cents and den > 0.
IsHalfUp(cents, num, den) ==
    /\ (2 * cents - 1) * den <= 2 * num
    /\ 2 * num < (2 * cents + 1) * den
\* The call returned what the rate (in hundredths) gives for its amount.
UsesRate(call, rate) ==
    IF Norm(call.from) = "USD"
    THEN call.kind = "ok" /\ IsHalfUp(call.cents, call.amount.v * rate, 10 * 100)
    ELSE IF rate = 0 THEN call.kind = "ZeroDivisionError"
    ELSE call.kind = "ok" /\ IsHalfUp(call.cents, call.amount.v * 10, rate)
Parses(cell) == float(strip(cell)) # None
ParseableRows == {i \in 1..Len(csv_rows) : Parses(csv_rows[i])}
LastParseable == CHOOSE i \in ParseableRows : \A k \in ParseableRows : k <= i
SourceValid == "USD/CAD" \in Range(csv_fieldnames) /\ ParseableRows # {}

\* C1: once the cached rate is present it never changes (so it goes from
\* absent to present at most once), and every later cross-currency convert
\* returns what that value gives, without opening the source, whatever the
\* source holds by then.
C1_CachedRateFixed ==
    [][ /\ cached_usd_cad # None => cached_usd_cad' = cached_usd_cad
        /\ (cached_usd_cad # None /\ IsCross(xr_call'))
              => /\ ~xr_call'.read
                 /\ UsesRate(xr_call', cached_usd_cad.v) ]_vars
\* A cross-currency convert answered from the cache while the source holds
\* another latest value.
C1_Witness ==
    /\ IsCross(xr_call)
    /\ xr_call.before = PyFloat(135)
    /\ xr_call.kind = "ok"
    /\ ~xr_call.read
    /\ SourceValid
    /\ float(strip(csv_rows[LastParseable])) = PyFloat(137)

\* C2: when the header has a USD/CAD column, a lookup that reads the source
\* yields the value of the last row whose cell parses as a number; blank and
\* unparsable cells are skipped wherever they stand, and the lookup fails only
\* when no row parses.
C2_LastParseableRow ==
    (IsConvert /\ xr_call.read /\ "USD/CAD" \in Range(csv_fieldnames))
        => IF ParseableRows = {}
           THEN xr_call.kind = "ValueError_no_numeric"
           ELSE /\ xr_call.kind \notin LookupErrors
                /\ cached_usd_cad = float(strip(csv_rows[LastParseable]))
                /\ UsesRate(xr_call, cached_usd_cad.v)
\* A lookup over a parseable row, an unparsable row and a padded parseable row.
C2_Witness ==
    /\ IsConvert
    /\ xr_call.read
    /\ csv_rows = <<"1.35", "abc", " 1.37 ">>
    /\ cached_usd_cad = PyFloat(137)

\* C3: a cross-currency convert that fails in the lookup returns the error and
\* leaves the cached rate absent, and the next cross-currency convert reads
\* the source again and succeeds if the source is valid by then.
C3_FailedLookupIsRetried ==
    /\ (IsConvert /\ xr_call.kind \in LookupErrors) => cached_usd_cad = None
    /\ (IsCross(xr_call) /\ xr_call.retry)
          => /\ xr_call.read
             /\ SourceValid => xr_call.kind = "ok"

\* C4: convert(amount, X, X) with amount >= 0 and X CAD or USD returns the
\* amount rounded to the nearest cent, does not open the source and leaves the
\* cached rate as it was, also when the source has no USD/CAD column or no
\* parseable value.
C4_SameCurrency ==
    (/\ IsConvert
     /\ IsIntOrFloat(xr_call.amount)
     /\ xr_call.amount.v >= 0
     /\ Norm(xr_call.from) \in {"CAD", "USD"}
     /\ Norm(xr_call.from) = Norm(xr_call.to))
        => /\ xr_call.kind = "ok"
           /\ 2 * Abs(10 * xr_call.cents - xr_call.amount.v) <= 10
           /\ ~xr_call.read
           /\ cached_usd_cad = xr_call.before
\* A same-currency convert over a source without the column and no cached rate.
C4_Witness ==
    /\ IsConvert
    /\ xr_call.amount = PyFloat(1006)
    /\ Norm(xr_call.from) = "USD"
    /\ Norm(xr_call.to) = "USD"
    /\ xr_call.cents = 101
    /\ "USD/CAD" \notin Range(csv_fieldnames)
    /\ cached_usd_cad = None

\* A number within [lo, hi].
InRange(x, lo, hi) == x.t \in {"int", "float"} /\ lo <= x.v /\ x.v <= hi
MPUnchanged ==
    /\ quoted_rate_pct = mp_call.rate_before
    /\ amort_years = mp_call.years_before

\* C5: every call with an invalid argument fails and leaves the state as it
\* was: convert with a non-numeric or negative amount or a currency other than
\* CAD/USD (which also does not open the source), set_rate_percent with a
\* value outside [0,100], set_amort_years with a non-integer or a value
\* outside [1,100], payments with a non-numeric or negative principal.
C5_InvalidArgumentRejected ==
    /\ (/\ IsConvert
        /\ \/ ~IsIntOrFloat(xr_call.amount)
           \/ xr_call.amount.v < 0
           \/ Norm(xr_call.from) \notin {"CAD", "USD"}
           \/ Norm(xr_call.to) \notin {"CAD", "USD"})
          => /\ xr_call.kind \in ArgumentErrors
             /\ ~xr_call.read
             /\ cached_usd_cad = xr_call.before
    /\ (mp_call.op = "set_rate_percent" /\ ~InRange(mp_call.arg, 0, 100 * 10))
          => mp_call.kind # "ok" /\ MPUnchanged
    /\ (/\ mp_call.op = "set_amort_years"
        /\ ~(mp_call.arg.t = "int" /\ InRange(mp_call.arg, 1, 100)))
          => mp_call.kind # "ok" /\ MPUnchanged
    /\ (mp_call.op = "payments" /\ ~(IsIntOrFloat(mp_call.arg) /\ mp_call.arg.v >= 0))
          => mp_call.kind # "ok" /\ MPUnchanged

\* C6: whenever a MortgagePayment object exists, its stored rate percent is in
\* [0,100] and its stored amortization years is an integer in [1,100]; a
\* constructor call with an invalid rate or term yields no object.
C6_StoredFieldsValid ==
    /\ mp_alive => /\ InRange(quoted_rate_pct, 0, 100 * 10)
                   /\ amort_years.t = "int"
                   /\ InRange(amort_years, 1, 100)
    /\ (/\ mp_call.op = "init"
        /\ \/ ~InRange(mp_call.arg, 0, 100 * 10)
           \/ ~(mp_call.arg2.t = "int" /\ InRange(mp_call.arg2, 1, 100)))
          => ~mp_alive

IsPayments == mp_call.op = "payments" /\ mp_call.kind = "ok"
\* The monthly amount before rounding, in mills.
Monthly == _payment_given_frequency(quoted_rate_pct, amort_years, mp_call.arg, 12)

\* C7 as claimed: the rapid amounts are the returned (rounded) monthly amount
\* divided by 2 and by 4, rounded to two decimals.
C7_RapidFromReturnedMonthly ==
    IsPayments
        => /\ mp_call.values[5] = r2(Over(CentsToMills(mp_call.values[1]), 2))
           /\ mp_call.values[6] = r2(Over(CentsToMills(mp_call.values[1]), 4))
\* C7 as amended: the rapid amounts are the monthly amount before rounding
\* divided by 2 and by 4, rounded to two decimals (and the returned monthly
\* amount is that same amount rounded).
C7_RapidFromUnroundedMonthly ==
    IsPayments
        => /\ mp_call.values[1] = r2(Monthly)
           /\ mp_call.values[5] = r2(Over(Monthly, 2))
           /\ mp_call.values[6] = r2(Over(Monthly, 4))
\* A call whose rapid bi-weekly amount is not half the returned monthly amount
\* rounded: principal 0.07 at 0% over 1 year gives 0.01 monthly, 0.00 rapid.
C7_Witness ==
    /\ IsPayments
    /\ mp_call.values[1] = PyFloat(1)
    /\ mp_call.values[5] = PyFloat(0)
    /\ mp_call.values[6] = PyFloat(0)

\* C8: at a stored rate of 0, payments returns principal / (m * years)
\* rounded to two decimals for m = 12, 24, 26, 52, and the monthly quotient
\* divided by 2 and by 4, rounded, as the rapid amounts; the call does not fail.
Quotient(i, cents, years) ==
    LET d == <<12, 24, 26, 52, 12 * 2, 12 * 4>>[i] * years
    IN  cents.t = "float" /\ IsHalfUp(cents.v, mp_call.arg.v, 10 * d)
C8_ZeroRate ==
    (/\ mp_call.op = "payments"
     /\ IsIntOrFloat(mp_call.arg)
     /\ mp_call.arg.v >= 0
     /\ quoted_rate_pct = PyFloat(0))
        => /\ mp_call.kind = "ok"
           /\ \A i \in 1..6 : Quotient(i, mp_call.values[i], amort_years.v)
\* A zero-rate call over 2 years with amounts that differ by frequency.
C8_Witness ==
    /\ IsPayments
    /\ quoted_rate_pct = PyFloat(0)
    /\ amort_years = PyInt(2)
    /\ mp_call.arg = PyInt(100000)
    /\ mp_call.values[1] = PyFloat(417)
    /\ mp_call.values[4] = PyFloat(96)

\* Two payments calls in a row under the same rate and term, the second with
\* the larger principal.
LargerPrincipal ==
    /\ IsPayments
    /\ mp_prev.op = "payments"
    /\ mp_prev.principal.v < mp_call.arg.v
\* C9 as claimed: a larger principal makes each of the six amounts strictly
\* greater.
C9_StrictlyMonotone ==
    LargerPrincipal
        => \A i \in 1..6 : Gt(mp_call.values[i], mp_prev.values[i].v)
\* C9 as amended: a larger principal makes none of the six amounts smaller
\* (amounts are rounded to cents, so close principals give equal amounts).
C9_Monotone ==
    LargerPrincipal
        => \A i \in 1..6 : ~Lt(mp_call.values[i], mp_prev.values[i].v)
\* A larger principal with the same six amounts, at a valid rate.
C9_Witness ==
    /\ LargerPrincipal
    /\ quoted_rate_pct = PyFloat(55)
    /\ mp_call.arg.v > 0
    /\ mp_call.values = mp_prev.values

\* C10: with a memoized rate, for every two-decimal amount a >= 0,
\* convert(convert(a, USD, CAD), CAD, USD) succeeds and is within one cent of a.
C10_RoundTrip ==
    cached_usd_cad # None
        => \A a \in 0..MaxRoundTripCents :
             \A x \in convert(cached_usd_cad, csv_fieldnames, csv_rows,
                              PyFloat(10 * a), "USD", "CAD") :
               /\ x.kind = "ok"
               /\ \A y \in convert(x.cached, csv_fieldnames, csv_rows,
                                   PyFloat(10 * x.cents), "CAD", "USD") :
                    y.kind = "ok" /\ Abs(y.cents - a) <= 1

====
